---- MODULE Spec2Model ----
(***************************************************************************)
(* Dino Reserve: the reservation store (restaurants, tables,               *)
(* reservations), the HTTP handlers of fastapi_main that read and change   *)
(* it, the seeding step, the commands of manage_db, and the RateLimiter    *)
(* of production_config.                                                   *)
(*                                                                         *)
(* Times are integers: minutes where only their equality and order count,  *)
(* microseconds of a scaled calendar where the day matters.  An optional   *)
(* value (a column that may be NULL, a field of a partial update that may  *)
(* be unset, the result of Query.first()) is the empty tuple << >> when    *)
(* absent and <<v>> when present.                                          *)
(***************************************************************************)
EXTENDS Integers, Sequences, FiniteSets, TLC

\* ------------------------------------------------------------------ bounds
\* Reservation identifiers handed out by the id sequence: 1 .. MaxRes.
MaxRes == 2
\* Reservation times and the clock range over 0 .. MaxTime minutes.
MaxTime == 1
\* Requested party sizes range over 0 .. MaxParty.
MaxParty == 3
\* Restaurants and tables per restaurant of the seed the requests are served
\* on (5 and 25 in the deployed seed).
NumRestaurants == 2
TablesPerRestaurant == 1
\* Concurrent create_reservation requests in flight.
NumClients == 2
\* Thresholds of the retention cleanup range over 0 .. MaxDays days.
MaxDays == 1
\* RateLimiter(max_requests, window_seconds) (60 and 60 by default), and the
\* clock of its calls, which ranges over 0 .. MaxClock microseconds.
max_requests == 2
window_seconds == 1
MaxClock == 4
\* Calendar of the occupancy and retention rules, scaled: a second has
\* MicrosPerSecond microseconds (1,000,000 on the wall clock), a day has
\* SecondsPerDay seconds (86,400), and the days are 0 .. MaxDay.
MicrosPerSecond == 2
SecondsPerDay == 2
MaxDay == 1

\* ------------------------------------------------------------ input sets
Times == 0 .. MaxTime
PartySizes == 0 .. MaxParty
CustomerNames == {"Rex"}
Phones == {"555"}
\* "pending" stands for any string that is not a ReservationStatus value.
StatusStrings == {"reserved", "cancelled", "pending"}
Clients == 1 .. NumClients
\* request.client.host of the requests the limiter sees.
Identifiers == {"10.0.0.1", "10.0.0.2"}
MicrosPerDay == SecondsPerDay * MicrosPerSecond
\* Instants of the calendar, in microseconds since the start of day 0.
Instants == 0 .. ((MaxDay + 1) * MicrosPerDay - 1)

Opt(S) == {<< >>} \cup {<<v>> : v \in S}

\* ------------------------------------------------------------------ state
VARIABLES
    restaurants,   \* Restaurant rows: id -> [name, location, dino_type]
    tables,        \* Table rows: id -> [restaurant_id, table_number, capacity]
    reservations,  \* Reservation rows: id -> row
    nextId,        \* next value of the reservations id sequence
    now,           \* the server clock
    last,          \* the last request served and its response
    pc,            \* per client: position inside an in-flight create_reservation
    creq,          \* per client: the request body of the in-flight create
    ctable,        \* per client: the handler's local `table`
    cseen,         \* per client: the id sequence value when `existing` was read
    cli,           \* the manage_db process: its position and its local variables
    requests,      \* RateLimiter.requests: identifier -> list of timestamps
    granted        \* per identifier: the times of all calls answered True so far

vars == <<restaurants, tables, reservations, nextId, now, last, pc, creq, ctable, cseen, cli,
          requests, granted>>
store == <<restaurants, tables, reservations>>
clientVars == <<pc, creq, ctable, cseen>>
limiterVars == <<requests, granted>>

\* ------------------------------------------------------------- seed data
restaurants_data == <<
    [name |-> "T-Rex Tavern", location |-> "Downtown Dino District", dino_type |-> "trex"],
    [name |-> "Bronto Bistro", location |-> "Jurassic Junction", dino_type |-> "bronto"],
    [name |-> "Raptor Restaurant", location |-> "Cretaceous Corner", dino_type |-> "raptor"],
    [name |-> "Stego Steakhouse", location |-> "Triassic Trail", dino_type |-> "stego"],
    [name |-> "Pterodactyl Pub", location |-> "Sky Valley", dino_type |-> "ptero"] >>

\* for i in range(1, 26): the tables of one restaurant are numbered 1 .. 25.
LastTableNumber == 25

SeedCapacity(i) == IF i <= 10 THEN 2 ELSE (IF i <= 20 THEN 4 ELSE 6)

\* The Restaurant rows of a seed with the first `n` entries of restaurants_data.
SeededRestaurants(n) == [r \in 1 .. n |-> restaurants_data[r]]

\* The Table rows of a seed with `n` restaurants of `per` tables each, in the
\* order of their insertion.
SeededTables(n, per) ==
    [t \in 1 .. (n * per) |->
        [restaurant_id |-> ((t - 1) \div per) + 1,
         table_number  |-> ((t - 1) % per) + 1,
         capacity      |-> SeedCapacity(((t - 1) % per) + 1)]]

\* The seed the requests are served on.
SeedRestaurants == SeededRestaurants(NumRestaurants)
SeedTables == SeededTables(NumRestaurants, TablesPerRestaurant)

\* Table ids a request may name: the seeded ones and one that matches no row.
TableIds == 1 .. (NumRestaurants * TablesPerRestaurant + 1)
\* Restaurant ids a request may name: 0, the seeded ones, and one that matches
\* no row.
RestaurantIds == 0 .. (NumRestaurants + 1)
\* Reservation ids a request may name: every id the sequence can hand out and
\* one more, which never matches a row.
ReservationIds == 1 .. (MaxRes + 1)

\* ------------------------------------------------------- request bodies
ReservationCreate ==
    [table_id : TableIds, customer_name : CustomerNames, phone : Phones,
     party_size : PartySizes, reservation_time : Times]

ReservationUpdate ==
    [customer_name : Opt(CustomerNames), phone : Opt(Phones),
     party_size : Opt(PartySizes), reservation_time : Opt(Times),
     status : Opt(StatusStrings)]

\* --------------------------------------------------------------- queries
\* Variant: an unknown id falls back to the first table.
FindTable_Fallback(tbls, table_id) ==
    IF table_id \in DOMAIN tbls THEN <<tbls[table_id]>> ELSE <<tbls[1]>>

\* db.query(Table).filter(Table.id == table_id).first()
FindTable(tbls, table_id) ==
    IF table_id \in DOMAIN tbls THEN <<tbls[table_id]>> ELSE << >>

\* Variant: the time filter is dropped, any reserved row of the table matches.
ExistingReserved_AnyTime(rows, table_id, time) ==
    {id \in DOMAIN rows :
        /\ rows[id].table_id = table_id
        /\ rows[id].status = "reserved"}

\* Variant: the status filter names the wrong status.
ExistingReserved_Cancelled(rows, table_id, time) ==
    {id \in DOMAIN rows :
        /\ rows[id].table_id = table_id
        /\ rows[id].status = "cancelled"
        /\ rows[id].reservation_time = time}

\* Variant: the table filter is dropped, a reserved row of any table matches.
ExistingReserved_AnyTable(rows, table_id, time) ==
    {id \in DOMAIN rows :
        /\ rows[id].status = "reserved"
        /\ rows[id].reservation_time = time}

\* The rows of the `existing` query of create_reservation.
ExistingReserved(rows, table_id, time) ==
    {id \in DOMAIN rows :
        /\ rows[id].table_id = table_id
        /\ rows[id].status = "reserved"
        /\ rows[id].reservation_time = time}

\* Variant: off by one, a party that fills the table is refused.
ExceedsCapacity_OffByOne(party_size, table) == party_size >= table.capacity

ExceedsCapacity(party_size, table) == party_size > table.capacity

\* Variant: the phone is stored in the customer_name column.
NewReservation_NameFromPhone(req, id, clock) ==
    [id |-> id, table_id |-> req.table_id, customer_name |-> req.phone,
     phone |-> req.phone, party_size |-> req.party_size,
     reservation_time |-> req.reservation_time, status |-> "reserved",
     created_at |-> clock]

\* Reservation(**reservation.dict()) with the column defaults applied.
NewReservation(req, id, clock) ==
    [id |-> id, table_id |-> req.table_id, customer_name |-> req.customer_name,
     phone |-> req.phone, party_size |-> req.party_size,
     reservation_time |-> req.reservation_time, status |-> "reserved",
     created_at |-> clock]

\* ------------------------------------------------------------- responses
NotFoundTable == [code |-> 404, detail |-> <<"Table not found">>]
Conflict == [code |-> 400, detail |-> <<"Table already reserved for this time">>]
CapacityExceeded(table) ==
    [code |-> 400, detail |-> <<"Party size exceeds table capacity", table.capacity>>]
NotFoundReservation == [code |-> 404, detail |-> <<"Reservation not found">>]
NotFoundRestaurant == [code |-> 404, detail |-> <<"Restaurant not found">>]
Ok == [code |-> 200, detail |-> << >>]

\* What `last` holds: the operation, the id of its path (0 when it has none),
\* the request body or query parameters (create and the reservation listing
\* only), the response and its JSON body.
Served(op, id, req, resp, body) ==
    [op |-> op, id |-> id, req |-> req, resp |-> resp, body |-> body]

\* What a command prints when it ends, with exit code 0.
Printed(op, id, message) == Served(op, id, << >>, [code |-> 0, detail |-> message], << >>)

\* The confirmation cancel_reservation returns.
Cancelled(reservation_id) ==
    [message |-> "Reservation cancelled successfully", id |-> reservation_id]

\* The manage_db process between two commands: no local variable is live.
Idle == [pc |-> "idle", id |-> 0, status |-> "", old |-> {}]

\* ------------------------------------------------------------------ Init
Init ==
    /\ restaurants = SeedRestaurants
    /\ tables = SeedTables
    /\ reservations = << >>
    /\ nextId = 1
    /\ now = 0
    /\ last = Served("none", 0, << >>, Ok, << >>)
    /\ pc = [c \in Clients |-> "idle"]
    /\ creq = [c \in Clients |-> << >>]
    /\ ctable = [c \in Clients |-> << >>]
    /\ cseen = [c \in Clients |-> 0]
    /\ cli = Idle
    /\ requests = [identifier \in Identifiers |-> << >>]
    /\ granted = [identifier \in Identifiers |-> << >>]

\* ------------------------------------------------- POST /reservations
\* Variant: the capacity check runs before the conflict check.
CreateRejection_CapacityFirst(tbls, rows, req) ==
    LET table == FindTable(tbls, req.table_id) IN
    IF table = << >> THEN <<NotFoundTable>>
    ELSE IF ExceedsCapacity(req.party_size, table[1]) THEN <<CapacityExceeded(table[1])>>
    ELSE IF ExistingReserved(rows, req.table_id, req.reservation_time) # {} THEN <<Conflict>>
    ELSE << >>

\* The response create_reservation gives before it inserts, << >> when every
\* check passes.
CreateRejection(tbls, rows, req) ==
    LET table == FindTable(tbls, req.table_id) IN
    IF table = << >> THEN <<NotFoundTable>>
    ELSE IF ExistingReserved(rows, req.table_id, req.reservation_time) # {} THEN <<Conflict>>
    ELSE IF ExceedsCapacity(req.party_size, table[1]) THEN <<CapacityExceeded(table[1])>>
    ELSE << >>

\* Variant: the row is committed before the capacity check.
create_reservation_InsertThenCheck(req) ==
    LET table == FindTable(tables, req.table_id)
        row == NewReservation(req, nextId, now)
    IN  /\ nextId <= MaxRes
        /\ IF table = << >>
           THEN /\ last' = Served("create", 0, <<req>>, NotFoundTable, << >>)
                /\ UNCHANGED <<reservations, nextId>>
           ELSE IF ExistingReserved(reservations, req.table_id, req.reservation_time) # {}
           THEN /\ last' = Served("create", 0, <<req>>, Conflict, << >>)
                /\ UNCHANGED <<reservations, nextId>>
           ELSE /\ reservations' = (nextId :> row) @@ reservations
                /\ nextId' = nextId + 1
                /\ last' = IF ExceedsCapacity(req.party_size, table[1])
                           THEN Served("create", 0, <<req>>, CapacityExceeded(table[1]), << >>)
                           ELSE Served("create", 0, <<req>>, Ok, <<row>>)
        /\ UNCHANGED <<restaurants, tables, now, clientVars, cli, limiterVars>>

create_reservation(req) ==
    LET rejection == CreateRejection(tables, reservations, req)
        row == NewReservation(req, nextId, now)
    IN  /\ rejection = << >> => nextId <= MaxRes
        /\ IF rejection # << >>
           THEN /\ last' = Served("create", 0, <<req>>, rejection[1], << >>)
                /\ UNCHANGED <<reservations, nextId>>
           ELSE /\ reservations' = (nextId :> row) @@ reservations
                /\ nextId' = nextId + 1
                /\ last' = Served("create", 0, <<req>>, Ok, <<row>>)
        /\ UNCHANGED <<restaurants, tables, now, clientVars, cli, limiterVars>>

\* ------------------------------------------- DELETE /reservations/{id}
\* Variant: cancelling toggles the status.
CancelRow_Toggle(row) ==
    [row EXCEPT !.status = IF row.status = "cancelled" THEN "reserved" ELSE "cancelled"]

\* db_reservation.status = "cancelled"
CancelRow(row) == [row EXCEPT !.status = "cancelled"]

\* Variant: cancelling deletes the row.
cancel_reservation_Deletes(reservation_id) ==
    /\ IF reservation_id \notin DOMAIN reservations
       THEN /\ last' = Served("cancel", reservation_id, << >>, NotFoundReservation, << >>)
            /\ UNCHANGED reservations
       ELSE /\ reservations' =
                    [id \in DOMAIN reservations \ {reservation_id} |-> reservations[id]]
            /\ last' = Served("cancel", reservation_id, << >>, Ok, <<Cancelled(reservation_id)>>)
    /\ UNCHANGED <<restaurants, tables, nextId, now, clientVars, cli, limiterVars>>

cancel_reservation(reservation_id) ==
    /\ IF reservation_id \notin DOMAIN reservations
       THEN /\ last' = Served("cancel", reservation_id, << >>, NotFoundReservation, << >>)
            /\ UNCHANGED reservations
       ELSE /\ reservations' =
                    [reservations EXCEPT ![reservation_id] = CancelRow(reservations[reservation_id])]
            /\ last' = Served("cancel", reservation_id, << >>, Ok, <<Cancelled(reservation_id)>>)
    /\ UNCHANGED <<restaurants, tables, nextId, now, clientVars, cli, limiterVars>>

\* ---------------------------------------------- PUT /reservations/{id}
\* Variant: a field the update leaves unset goes back to its column default.
ApplyUpdate_ResetsStatus(row, upd) ==
    [f \in DOMAIN row |->
        IF f \in DOMAIN upd /\ upd[f] # << >> THEN upd[f][1]
        ELSE IF f = "status" THEN "reserved" ELSE row[f]]

\* The row after `for field, value in update_data.items(): setattr(...)`.
ApplyUpdate(row, upd) ==
    [f \in DOMAIN row |->
        IF f \in DOMAIN upd /\ upd[f] # << >> THEN upd[f][1] ELSE row[f]]

\* Variant: the update answers 400 when the updated row exceeds its table's
\* capacity or takes a slot another 'reserved' row holds.
update_reservation_Revalidating(reservation_id, upd) ==
    /\ IF reservation_id \notin DOMAIN reservations
       THEN /\ last' = Served("update", reservation_id, << >>, NotFoundReservation, << >>)
            /\ UNCHANGED reservations
       ELSE LET row == ApplyUpdate(reservations[reservation_id], upd)
                table == tables[row.table_id]
                others == ExistingReserved(reservations, row.table_id, row.reservation_time)
                              \ {reservation_id}
            IN  IF row.status = "reserved" /\ others # {}
                THEN /\ last' = Served("update", reservation_id, << >>, Conflict, << >>)
                     /\ UNCHANGED reservations
                ELSE IF ExceedsCapacity(row.party_size, table)
                THEN /\ last' = Served("update", reservation_id, << >>,
                                       CapacityExceeded(table), << >>)
                     /\ UNCHANGED reservations
                ELSE /\ reservations' = [reservations EXCEPT ![reservation_id] = row]
                     /\ last' = Served("update", reservation_id, << >>, Ok, <<row>>)
    /\ UNCHANGED <<restaurants, tables, nextId, now, clientVars, cli, limiterVars>>

update_reservation(reservation_id, upd) ==
    /\ IF reservation_id \notin DOMAIN reservations
       THEN /\ last' = Served("update", reservation_id, << >>, NotFoundReservation, << >>)
            /\ UNCHANGED reservations
       ELSE LET row == ApplyUpdate(reservations[reservation_id], upd) IN
            /\ reservations' = [reservations EXCEPT ![reservation_id] = row]
            /\ last' = Served("update", reservation_id, << >>, Ok, <<row>>)
    /\ UNCHANGED <<restaurants, tables, nextId, now, clientVars, cli, limiterVars>>

Tick ==
    /\ now < MaxTime
    /\ now' = now + 1
    /\ UNCHANGED <<restaurants, tables, reservations, nextId, last, clientVars, cli, limiterVars>>

\* ------------------------- POST /reservations, one statement at a time
\* The same handler as create_reservation, for requests served concurrently:
\* each query and the final insert+commit is a step of its own, and steps of
\* different clients interleave.
ReadTable(c, req) ==
    LET table == FindTable(tables, req.table_id) IN
    /\ pc[c] = "idle"
    /\ IF table = << >>
       THEN /\ last' = Served("create", 0, <<req>>, NotFoundTable, << >>)
            /\ UNCHANGED clientVars
       ELSE /\ pc' = [pc EXCEPT ![c] = "read_existing"]
            /\ creq' = [creq EXCEPT ![c] = <<req>>]
            /\ ctable' = [ctable EXCEPT ![c] = table]
            /\ UNCHANGED <<last, cseen>>
    /\ UNCHANGED <<restaurants, tables, reservations, nextId, now, cli, limiterVars>>

Release(c) ==
    /\ pc' = [pc EXCEPT ![c] = "idle"]
    /\ creq' = [creq EXCEPT ![c] = << >>]
    /\ ctable' = [ctable EXCEPT ![c] = << >>]
    /\ cseen' = [cseen EXCEPT ![c] = 0]

ReadExisting(c) ==
    /\ pc[c] = "read_existing"
    /\ IF ExistingReserved(reservations, creq[c][1].table_id, creq[c][1].reservation_time) # {}
       THEN /\ last' = Served("create", 0, creq[c], Conflict, << >>)
            /\ Release(c)
       ELSE /\ pc' = [pc EXCEPT ![c] = "check_capacity"]
            /\ cseen' = [cseen EXCEPT ![c] = nextId]
            /\ UNCHANGED <<last, creq, ctable>>
    /\ UNCHANGED <<restaurants, tables, reservations, nextId, now, cli, limiterVars>>

CheckCapacity(c) ==
    /\ pc[c] = "check_capacity"
    /\ IF ExceedsCapacity(creq[c][1].party_size, ctable[c][1])
       THEN /\ last' = Served("create", 0, creq[c], CapacityExceeded(ctable[c][1]), << >>)
            /\ Release(c)
       ELSE /\ pc' = [pc EXCEPT ![c] = "insert"]
            /\ UNCHANGED <<last, creq, ctable, cseen>>
    /\ UNCHANGED <<restaurants, tables, reservations, nextId, now, cli, limiterVars>>

InsertCommit(c) ==
    LET row == NewReservation(creq[c][1], nextId, now) IN
    /\ pc[c] = "insert"
    /\ nextId <= MaxRes
    /\ reservations' = (nextId :> row) @@ reservations
    /\ nextId' = nextId + 1
    /\ last' = Served("create", 0, creq[c], Ok, <<row>>)
    /\ Release(c)
    /\ UNCHANGED <<restaurants, tables, now, cli, limiterVars>>

\* ------------------------------------- GET /restaurants/{id}/tables
\* clock.replace(hour=0, minute=0, second=0): the date and the microsecond of
\* `clock` are kept.
ReplaceHourMinuteSecond(clock) ==
    (clock \div MicrosPerDay) * MicrosPerDay + (clock % MicrosPerSecond)

\* datetime.isoformat(): the date, the time of day and the microsecond.
IsoFormat(t) ==
    [date |-> t \div MicrosPerDay,
     time |-> (t % MicrosPerDay) \div MicrosPerSecond,
     microsecond |-> t % MicrosPerSecond]

\* The rows the active_reservation query of get_tables matches.
ActiveReservations(rows, table_id, clock) ==
    {id \in DOMAIN rows :
        /\ rows[id].table_id = table_id
        /\ rows[id].status = "reserved"
        /\ rows[id].reservation_time >= ReplaceHourMinuteSecond(clock)}

\* The reservation_data dictionary.
ReservationData(row) ==
    [id |-> row.id, customer_name |-> row.customer_name, phone |-> row.phone,
     party_size |-> row.party_size,
     reservation_time |-> IsoFormat(row.reservation_time), status |-> row.status]

\* One entry of the listing; `active` is the result of Query.first().
TableWithStatus(table_id, table, active) ==
    [id |-> table_id, table_number |-> table.table_number, capacity |-> table.capacity,
     restaurant_id |-> table.restaurant_id,
     is_reserved |-> active # << >>,
     current_reservation |-> IF active = << >> THEN << >> ELSE <<ReservationData(active[1])>>]

\* The orders in which a query without ORDER BY may return the rows `S`.
Orders(S) ==
    {o \in [1 .. Cardinality(S) -> S] :
        \A i, j \in 1 .. Cardinality(S) : i # j => o[i] # o[j]}

\* Query.first() on the rows `S`: no row when there is none, else any of them.
First(S) == IF S = {} THEN {<< >>} ELSE {<<id>> : id \in S}

get_tables(restaurant_id) ==
    LET ids == {t \in DOMAIN tables : tables[t].restaurant_id = restaurant_id} IN
    /\ IF restaurant_id \notin DOMAIN restaurants
       THEN last' = Served("tables", restaurant_id, << >>, NotFoundRestaurant, << >>)
       ELSE \E order \in Orders(ids) :
            \E first \in [ids -> Opt(DOMAIN reservations)] :
                /\ \A t \in ids : first[t] \in First(ActiveReservations(reservations, t, now))
                /\ last' = Served("tables", restaurant_id, << >>, Ok,
                        <<[tables |->
                            [i \in DOMAIN order |->
                                TableWithStatus(order[i], tables[order[i]],
                                    IF first[order[i]] = << >> THEN << >>
                                    ELSE <<reservations[first[order[i]][1]]>>)]]>>)
    /\ UNCHANGED <<restaurants, tables, reservations, nextId, now, clientVars, cli, limiterVars>>

\* ------------------------------------------------- GET /reservations
\* `if restaurant_id:` and `if status:`: a parameter that is absent, 0 or the
\* empty string applies no filter.
FilteredReservations(tbls, rows, restaurant_id, status) ==
    {id \in DOMAIN rows :
        /\ rows[id].table_id \in DOMAIN tbls
        /\ (restaurant_id # << >> /\ restaurant_id[1] # 0) =>
                tbls[rows[id].table_id].restaurant_id = restaurant_id[1]
        /\ (status # << >> /\ status[1] # "") => rows[id].status = status[1]}

get_all_reservations(restaurant_id, status) ==
    /\ \E order \in Orders(FilteredReservations(tables, reservations, restaurant_id, status)) :
            last' = Served("reservations", 0,
                        <<[restaurant_id |-> restaurant_id, status |-> status]>>, Ok,
                        <<[reservations |-> [i \in DOMAIN order |-> reservations[order[i]]]]>>)
    /\ UNCHANGED <<restaurants, tables, reservations, nextId, now, clientVars, cli, limiterVars>>

\* ----------------------------------------------------------- seeding
\* Variant: the seed is inserted whether or not restaurants exist.
Seeding_Unconditional(rs, ts) ==
    <<rs \o SeededRestaurants(Len(restaurants_data)),
      ts \o [t \in 1 .. (Len(restaurants_data) * LastTableNumber) |->
                [SeededTables(Len(restaurants_data), LastTableNumber)[t]
                    EXCEPT !.restaurant_id = @ + Len(rs)]]>>

\* The Restaurant and Table rows after the seeding block ran on the rows `rs`
\* and `ts`: the seed is inserted when no restaurant exists.
Seeding(rs, ts) ==
    IF Cardinality(DOMAIN rs) = 0
    THEN <<SeededRestaurants(Len(restaurants_data)),
           SeededTables(Len(restaurants_data), LastTableNumber)>>
    ELSE <<rs, ts>>

\* The startup hook of the API.
startup ==
    /\ restaurants' = Seeding(restaurants, tables)[1]
    /\ tables' = Seeding(restaurants, tables)[2]
    /\ UNCHANGED <<reservations, nextId, now, last, clientVars, cli, limiterVars>>

\* seed_restaurants_and_tables of the seed script.
seed_restaurants_and_tables ==
    /\ restaurants' = Seeding(restaurants, tables)[1]
    /\ tables' = Seeding(restaurants, tables)[2]
    /\ last' = Printed("seed", 0,
                    IF Cardinality(DOMAIN restaurants) > 0
                    THEN <<"Restaurants already exist. Skipping...">>
                    ELSE <<"Restaurants and tables seeded successfully!">>)
    /\ UNCHANGED <<reservations, nextId, now, clientVars, cli, limiterVars>>

\* --------------------------------------------- manage_db: confirmation
\* What the operator may type at a prompt.
Answers == {"yes", "y", "YES", "Yes", "Y", "no", "n", ""}

\* str.lower() on the answers.
Lower(answer) ==
    CASE answer \in {"YES", "Yes"} -> "yes"
      [] answer = "Y" -> "y"
      [] OTHER -> answer

\* Variant: every answer but a refusal confirms.
Confirmed_UnlessRefused(confirm) == Lower(confirm) \notin {"no", "n"}

\* confirm.lower() in ['yes', 'y']
Confirmed(confirm) == Lower(confirm) \in {"yes", "y"}

\* --------------------------------------------- manage_db: cancel <id>
\* cancel_reservation up to input(): the row is loaded into the session and
\* the command waits for the operator.
CliCancelPrompt(reservation_id) ==
    /\ cli.pc = "idle"
    /\ IF reservation_id \notin DOMAIN reservations
       THEN /\ last' = Printed("cli_cancel", reservation_id, <<"Reservation not found!">>)
            /\ UNCHANGED cli
       ELSE /\ cli' = [pc |-> "confirm_cancel", id |-> reservation_id,
                        status |-> reservations[reservation_id].status, old |-> {}]
            /\ UNCHANGED last
    /\ UNCHANGED <<restaurants, tables, reservations, nextId, now, clientVars, limiterVars>>

\* cancel_reservation from input() on.  The commit writes the status column
\* of the loaded row when the assignment changed the loaded value.
CliCancelAnswer(confirm) ==
    /\ cli.pc = "confirm_cancel"
    /\ IF Confirmed(confirm)
       THEN /\ reservations' =
                    IF cli.status # "cancelled" /\ cli.id \in DOMAIN reservations
                    THEN [reservations EXCEPT ![cli.id] = CancelRow(reservations[cli.id])]
                    ELSE reservations
            /\ last' = Printed("cli_cancel", cli.id, <<"Reservation cancelled!">>)
       ELSE /\ last' = Printed("cli_cancel", cli.id, <<"Cancelled operation">>)
            /\ UNCHANGED reservations
    /\ cli' = Idle
    /\ UNCHANGED <<restaurants, tables, nextId, now, clientVars, limiterVars>>

\* --------------------------------------------- manage_db: cleanup --days
\* The rows of the old_reservations query: cutoff = now - timedelta(days).
OldCancelled(rows, clock, days) ==
    {id \in DOMAIN rows :
        /\ rows[id].reservation_time < clock - days * MicrosPerDay
        /\ rows[id].status = "cancelled"}

\* clear_old_reservations up to input(): the old rows are loaded into the
\* session and the command waits for the operator.
CliCleanupPrompt(days) ==
    LET old_reservations == OldCancelled(reservations, now, days) IN
    /\ cli.pc = "idle"
    /\ IF old_reservations = {}
       THEN /\ last' = Printed("cli_cleanup", 0, <<"No old cancelled reservations to clean up!">>)
            /\ UNCHANGED cli
       ELSE /\ cli' = [pc |-> "confirm_cleanup", id |-> 0, status |-> "",
                        old |-> old_reservations]
            /\ UNCHANGED last
    /\ UNCHANGED <<restaurants, tables, reservations, nextId, now, clientVars, limiterVars>>

\* clear_old_reservations from input() on: each loaded row is deleted by its
\* primary key.
CliCleanupAnswer(confirm) ==
    /\ cli.pc = "confirm_cleanup"
    /\ IF Confirmed(confirm)
       THEN /\ reservations' =
                    [id \in DOMAIN reservations \ cli.old |-> reservations[id]]
            /\ last' = Printed("cli_cleanup", 0, <<"Deleted old reservations!", Cardinality(cli.old)>>)
       ELSE /\ last' = Printed("cli_cleanup", 0, <<"Cancelled operation">>)
            /\ UNCHANGED reservations
    /\ cli' = Idle
    /\ UNCHANGED <<restaurants, tables, nextId, now, clientVars, limiterVars>>

\* ----------------------------------------- GET /restaurants, /restaurants/{id}
get_restaurants ==
    /\ \E order \in Orders(DOMAIN restaurants) :
            last' = Served("restaurants", 0, << >>, Ok,
                        <<[restaurants |-> [i \in DOMAIN order |-> restaurants[order[i]]]]>>)
    /\ UNCHANGED <<restaurants, tables, reservations, nextId, now, clientVars, cli, limiterVars>>

\* Variant: a restaurant that is not found is created on the spot.
get_restaurant_GetOrCreate(restaurant_id) ==
    /\ IF restaurant_id \notin DOMAIN restaurants
       THEN /\ restaurants' = Append(restaurants, restaurants_data[1])
            /\ last' = Served("restaurant", restaurant_id, << >>, Ok,
                               <<[restaurant |-> restaurants_data[1]]>>)
       ELSE /\ last' = Served("restaurant", restaurant_id, << >>, Ok,
                               <<[restaurant |-> restaurants[restaurant_id]]>>)
            /\ UNCHANGED restaurants
    /\ UNCHANGED <<tables, reservations, nextId, now, clientVars, cli, limiterVars>>

get_restaurant(restaurant_id) ==
    /\ IF restaurant_id \notin DOMAIN restaurants
       THEN last' = Served("restaurant", restaurant_id, << >>, NotFoundRestaurant, << >>)
       ELSE last' = Served("restaurant", restaurant_id, << >>, Ok,
                           <<[restaurant |-> restaurants[restaurant_id]]>>)
    /\ UNCHANGED <<restaurants, tables, reservations, nextId, now, clientVars, cli, limiterVars>>

\* ------------------------------------------------ manage_db: the listings
\* What a listing prints: its heading and the rows handed to tabulate().
Tabulated(op, id, heading, data) ==
    Served(op, id, << >>, [code |-> 0, detail |-> <<heading>>], <<data>>)

\* The six counts of show_stats.
Stats(rs, ts, rows, clock) ==
    [restaurant_count |-> Cardinality(DOMAIN rs),
     table_count |-> Cardinality(DOMAIN ts),
     reservation_count |-> Cardinality(DOMAIN rows),
     active |-> Cardinality({id \in DOMAIN rows : rows[id].status = "reserved"}),
     cancelled |-> Cardinality({id \in DOMAIN rows : rows[id].status = "cancelled"}),
     future |-> Cardinality({id \in DOMAIN rows :
                    rows[id].reservation_time > clock /\ rows[id].status = "reserved"})]

show_stats ==
    /\ cli.pc = "idle"
    /\ last' = Tabulated("cli_stats", 0, "DINO RESERVE DATABASE STATISTICS",
                    [stats |-> Stats(restaurants, tables, reservations, now)])
    /\ UNCHANGED <<restaurants, tables, reservations, nextId, now, clientVars, cli, limiterVars>>

\* Variant: any reserved row counts, whatever its time.
CliActiveReservations_AnyTime(rows, table_id, clock) ==
    {id \in DOMAIN rows :
        /\ rows[id].table_id = table_id
        /\ rows[id].status = "reserved"}

\* The rows the active-reservation queries of manage_db match for a table.
CliActiveReservations(rows, table_id, clock) ==
    {id \in DOMAIN rows :
        /\ rows[id].table_id = table_id
        /\ rows[id].status = "reserved"
        /\ rows[id].reservation_time >= clock}

\* Table JOIN Reservation ... .distinct(): the tables of the restaurant with
\* at least one matching reservation.
ReservedTables(ts, rows, restaurant_id, clock) ==
    {t \in DOMAIN ts :
        /\ ts[t].restaurant_id = restaurant_id
        /\ CliActiveReservations(rows, t, clock) # {}}

\* One row of list_restaurants; reserved and table_count are printed as
\* "reserved/table_count".
RestaurantRow(r) ==
    [id |-> r, name |-> restaurants[r].name, location |-> restaurants[r].location,
     dino_type |-> restaurants[r].dino_type,
     reserved |-> Cardinality(ReservedTables(tables, reservations, r, now)),
     table_count |-> Cardinality({t \in DOMAIN tables : tables[t].restaurant_id = r})]

list_restaurants ==
    /\ cli.pc = "idle"
    /\ \E order \in Orders(DOMAIN restaurants) :
            last' = Tabulated("cli_restaurants", 0, "RESTAURANTS",
                        [restaurant_rows |-> [i \in DOMAIN order |-> RestaurantRow(order[i])]])
    /\ UNCHANGED <<restaurants, tables, reservations, nextId, now, clientVars, cli, limiterVars>>

\* One row of list_tables; `active_res` is the result of Query.first().
TableRow(table, active_res) ==
    [table_number |-> table.table_number, capacity |-> table.capacity,
     status |-> IF active_res # << >> THEN "Reserved" ELSE "Available",
     customer |-> IF active_res # << >> THEN active_res[1].customer_name ELSE "-"]

list_tables(restaurant_id) ==
    LET ids == {t \in DOMAIN tables : tables[t].restaurant_id = restaurant_id} IN
    /\ cli.pc = "idle"
    /\ IF restaurant_id \notin DOMAIN restaurants
       THEN last' = Printed("cli_tables", restaurant_id, <<"Restaurant not found!">>)
       ELSE \E order \in Orders(ids) :
            \E first \in [ids -> Opt(DOMAIN reservations)] :
                /\ \A t \in ids :
                      first[t] \in First(CliActiveReservations(reservations, t, now))
                /\ last' = Tabulated("cli_tables", restaurant_id, "TABLES FOR",
                        [table_rows |->
                            [i \in DOMAIN order |->
                                TableRow(tables[order[i]],
                                    IF first[order[i]] = << >> THEN << >>
                                    ELSE <<reservations[first[order[i]][1]]>>)]])
    /\ UNCHANGED <<restaurants, tables, reservations, nextId, now, clientVars, cli, limiterVars>>

\* strftime("%Y-%m-%d %H:%M"): the date and the time of day; the
\* microsecond is not printed.
StrfTime(t) ==
    [date |-> t \div MicrosPerDay, time |-> (t % MicrosPerDay) \div MicrosPerSecond]

\* Reservation JOIN Table JOIN Restaurant, filtered when `status` is truthy.
JoinedReservations(rs, ts, rows, status) ==
    {id \in DOMAIN rows :
        /\ rows[id].table_id \in DOMAIN ts
        /\ ts[rows[id].table_id].restaurant_id \in DOMAIN rs
        /\ (status # << >> /\ status[1] # "") => rows[id].status = status[1]}

\* The orders ORDER BY reservation_time may return the rows `S` in, latest
\* first when `descending`; rows of equal time come in any order.
OrdersByTime(S, descending) ==
    {o \in Orders(S) :
        \A i, j \in DOMAIN o :
            i < j => IF descending
                     THEN reservations[o[i]].reservation_time >= reservations[o[j]].reservation_time
                     ELSE reservations[o[i]].reservation_time <= reservations[o[j]].reservation_time}

\* Query.limit(limit): the first `limit` rows.
Limit(o, limit) == SubSeq(o, 1, IF limit < Len(o) THEN limit ELSE Len(o))

\* limit: int = 20
DefaultLimit == 20

\* The values of --limit tried: one row, and the default.
Limits == {1, DefaultLimit}

\* --status, choices=['reserved', 'cancelled'], or not given.
StatusChoices == Opt({"reserved", "cancelled"})

\* One row of list_reservations.
ReservationRow(r) ==
    [id |-> r.id, restaurant_name |-> restaurants[tables[r.table_id].restaurant_id].name,
     table_number |-> tables[r.table_id].table_number,
     customer_name |-> r.customer_name, phone |-> r.phone, party_size |-> r.party_size,
     time_str |-> StrfTime(r.reservation_time),
     status_icon |-> IF r.status = "reserved" THEN "ok" ELSE "x", status |-> r.status]

list_reservations(limit, status) ==
    /\ cli.pc = "idle"
    /\ \E order \in OrdersByTime(JoinedReservations(restaurants, tables, reservations, status), TRUE) :
            last' = Served("cli_reservations", 0, <<[limit |-> limit, status |-> status]>>,
                        [code |-> 0, detail |-> <<"RESERVATIONS">>],
                        <<[reservation_rows |->
                            [i \in DOMAIN Limit(order, limit) |->
                                ReservationRow(reservations[order[i]])]]>>)
    /\ UNCHANGED <<restaurants, tables, reservations, nextId, now, clientVars, cli, limiterVars>>

\* reservation_time.between(now, future) and status 'reserved'; both ends of
\* the range are included.
Upcoming(rows, clock, days) ==
    {id \in DOMAIN rows :
        /\ rows[id].reservation_time >= clock
        /\ rows[id].reservation_time <= clock + days * MicrosPerDay
        /\ rows[id].status = "reserved"}

\* One row of upcoming_reservations; `until` is the time left in whole
\* units of the time of day (int() of the quotient).
UpcomingRow(r, clock) ==
    [restaurant_name |-> restaurants[tables[r.table_id].restaurant_id].name,
     table_number |-> tables[r.table_id].table_number,
     customer_name |-> r.customer_name, party_size |-> r.party_size,
     time_str |-> StrfTime(r.reservation_time),
     until |-> (r.reservation_time - clock) \div MicrosPerSecond]

upcoming_reservations(days) ==
    LET found == Upcoming(reservations, now, days) IN
    /\ cli.pc = "idle"
    /\ IF found = {}
       THEN last' = Printed("cli_upcoming", days, <<"No upcoming reservations!">>)
       ELSE \E order \in OrdersByTime(found, FALSE) :
                last' = Tabulated("cli_upcoming", days, "UPCOMING RESERVATIONS",
                            [upcoming_rows |->
                                [i \in DOMAIN order |-> UpcomingRow(reservations[order[i]], now)],
                             total |-> Len(order)])
    /\ UNCHANGED <<restaurants, tables, reservations, nextId, now, clientVars, cli, limiterVars>>

\* -------------------------------------------------------- RateLimiter
\* timedelta(seconds=self.window_seconds), in the unit of the clock.
WindowLength == window_seconds * MicrosPerSecond

\* The timestamps of `times` that are later than window_start.
Recent(times, clock) ==
    SelectSeq(times, LAMBDA req_time : req_time > clock - WindowLength)

\* Variant: off by one, the limit is passed before a call is refused.
AtLimit_OffByOne(times) == Len(times) > max_requests

\* len(self.requests[identifier]) >= self.max_requests
AtLimit(times) == Len(times) >= max_requests

is_allowed(identifier) ==
    LET cleaned == Recent(requests[identifier], now) IN
    /\ IF AtLimit(cleaned)
       THEN /\ requests' = [requests EXCEPT ![identifier] = cleaned]
            /\ UNCHANGED granted
            /\ last' = Served("is_allowed", 0, <<[identifier |-> identifier]>>, Ok,
                               <<[allowed |-> FALSE]>>)
       ELSE /\ requests' = [requests EXCEPT ![identifier] = Append(cleaned, now)]
            /\ granted' = [granted EXCEPT ![identifier] = Append(@, now)]
            /\ last' = Served("is_allowed", 0, <<[identifier |-> identifier]>>, Ok,
                               <<[allowed |-> TRUE]>>)
    /\ UNCHANGED <<restaurants, tables, reservations, nextId, now, clientVars, cli>>

\* Time passes between two calls of the limiter.
Elapse ==
    /\ now < MaxClock
    /\ now' = now + 1
    /\ UNCHANGED <<restaurants, tables, reservations, nextId, last, clientVars, cli, limiterVars>>

\* ------------------------------------------------------- specifications
\* Requests served one at a time: admission and cancellation.
Next ==
    \/ \E req \in ReservationCreate : create_reservation(req)
    \/ \E id \in ReservationIds : cancel_reservation(id)
    \/ Tick

Spec == Init /\ [][Next]_vars

\* Partial updates that touch the contact fields or the booking fields.
Updates ==
    {u \in ReservationUpdate :
        (u.customer_name # << >> \/ u.phone # << >>) =>
            (u.party_size = << >> /\ u.reservation_time = << >> /\ u.status = << >>)}

\* Requests served one at a time: the whole reservation lifecycle.
NextLifecycle ==
    \/ \E req \in ReservationCreate : create_reservation(req)
    \/ \E id \in ReservationIds, upd \in Updates : update_reservation(id, upd)
    \/ \E id \in ReservationIds : cancel_reservation(id)

SpecLifecycle == Init /\ [][NextLifecycle]_vars

\* Bookings sent concurrently: parties of two or more.
ConcurrentRequests == {r \in ReservationCreate : r.party_size >= 2}

NextConcurrent ==
    \E c \in Clients :
        \/ \E req \in ConcurrentRequests : ReadTable(c, req)
        \/ ReadExisting(c)
        \/ CheckCapacity(c)
        \/ InsertCommit(c)

SpecConcurrent == Init /\ [][NextConcurrent]_vars

\* Bookings that are corrected afterwards: a party of one at the first table.
UpdateBookings ==
    {r \in ReservationCreate : r.table_id = 1 /\ r.party_size = 1}

\* Corrections: every subset of the updatable fields.
Corrections ==
    [customer_name : Opt({"Dina"}), phone : Opt({"777"}),
     party_size : Opt({MaxParty}), reservation_time : Opt({MaxTime}),
     status : Opt({"reserved"})]

\* Requests served one at a time: bookings, their corrections and cancellations.
NextUpdate ==
    \/ \E req \in UpdateBookings : create_reservation(req)
    \/ \E id \in ReservationIds, upd \in Corrections : update_reservation(id, upd)
    \/ \E id \in ReservationIds : cancel_reservation(id)

SpecUpdate == Init /\ [][NextUpdate]_vars

\* The server starts at any instant of the calendar.
InitAtAnyInstant ==
    /\ restaurants = SeedRestaurants
    /\ tables = SeedTables
    /\ reservations = << >>
    /\ nextId = 1
    /\ now \in Instants
    /\ last = Served("none", 0, << >>, Ok, << >>)
    /\ pc = [c \in Clients |-> "idle"]
    /\ creq = [c \in Clients |-> << >>]
    /\ ctable = [c \in Clients |-> << >>]
    /\ cseen = [c \in Clients |-> 0]
    /\ cli = Idle
    /\ requests = [identifier \in Identifiers |-> << >>]
    /\ granted = [identifier \in Identifiers |-> << >>]

\* Bookings for any instant of the calendar: a party of two at a seeded table.
DayBookings ==
    [table_id : DOMAIN SeedTables, customer_name : CustomerNames, phone : Phones,
     party_size : {2}, reservation_time : Instants]

\* Requests served one at a time: bookings, cancellations and the table
\* listing with its occupancy.
NextTables ==
    \/ \E req \in DayBookings : create_reservation(req)
    \/ \E id \in ReservationIds : cancel_reservation(id)
    \/ \E r \in RestaurantIds : get_tables(r)

SpecTables == InitAtAnyInstant /\ [][NextTables]_vars

\* Bookings that are listed afterwards: a party of one.
ListedBookings == {r \in ReservationCreate : r.party_size = 1}

\* Requests served one at a time: bookings, cancellations and the reservation
\* listing with its filters.
NextListing ==
    \/ \E req \in ListedBookings : create_reservation(req)
    \/ \E id \in ReservationIds : cancel_reservation(id)
    \/ \E r \in Opt(RestaurantIds), st \in Opt(StatusStrings) : get_all_reservations(r, st)

SpecListing == Init /\ [][NextListing]_vars

\* The operator works on the last day of the calendar.
InitOnLastDay ==
    /\ InitAtAnyInstant
    /\ now >= MaxDay * MicrosPerDay

\* Bookings the operator deals with: a party of two at the first table.
AdminBookings == {r \in DayBookings : r.table_id = 1}

\* Updates sent while the operator works: a cancelled booking is taken up
\* again, or a booking is moved to the end of the calendar.
AdminUpdates ==
    {u \in [customer_name : {<< >>}, phone : {<< >>}, party_size : {<< >>},
            reservation_time : Opt({(MaxDay + 1) * MicrosPerDay - 1}),
            status : Opt({"reserved"})] :
        u.reservation_time # << >> \/ u.status # << >>}

\* The HTTP requests are served one at a time; the manage_db commands run in
\* a process of their own and wait at their prompt while requests are served.
NextAdmin ==
    \/ \E req \in AdminBookings : create_reservation(req)
    \/ \E id \in ReservationIds, upd \in AdminUpdates : update_reservation(id, upd)
    \/ \E id \in ReservationIds : cancel_reservation(id)
    \/ \E r \in DOMAIN SeedRestaurants : get_tables(r)
    \/ get_all_reservations(<< >>, << >>)
    \/ \E id \in ReservationIds : CliCancelPrompt(id)
    \/ \E confirm \in Answers : CliCancelAnswer(confirm)
    \/ \E days \in 0 .. MaxDays : CliCleanupPrompt(days)
    \/ \E confirm \in Answers : CliCleanupAnswer(confirm)

SpecAdmin == InitOnLastDay /\ [][NextAdmin]_vars

\* The database before the first seeding: the tables exist and hold no row.
InitEmpty ==
    /\ restaurants = << >>
    /\ tables = << >>
    /\ reservations = << >>
    /\ nextId = 1
    /\ now = 0
    /\ last = Served("none", 0, << >>, Ok, << >>)
    /\ pc = [c \in Clients |-> "idle"]
    /\ creq = [c \in Clients |-> << >>]
    /\ ctable = [c \in Clients |-> << >>]
    /\ cseen = [c \in Clients |-> 0]
    /\ cli = Idle
    /\ requests = [identifier \in Identifiers |-> << >>]
    /\ granted = [identifier \in Identifiers |-> << >>]

\* Bookings at the tables where the seeded capacity changes.
SeedBookings ==
    [table_id : {10, 11, 20, 21}, customer_name : CustomerNames, phone : Phones,
     party_size : {3, 5}, reservation_time : {0}]

\* The API is started and the seed script is run any number of times, one
\* after the other, and requests are served in between.
NextSeeding ==
    \/ startup
    \/ seed_restaurants_and_tables
    \/ \E req \in SeedBookings : create_reservation(req)
    \/ \E id \in ReservationIds : cancel_reservation(id)

SpecSeeding == InitEmpty /\ [][NextSeeding]_vars

\* Bookings seen by the read operations: a party of one at a seeded table, at
\* the start or at the end of the last day.
ReadBookings ==
    [table_id : DOMAIN SeedTables, customer_name : CustomerNames, phone : Phones,
     party_size : {1}, reservation_time : {MaxDay * MicrosPerDay, (MaxDay + 1) * MicrosPerDay - 1}]

\* The update sent between the reads: a status outside the enumeration.
ReadUpdates ==
    [customer_name : {<< >>}, phone : {<< >>}, party_size : {<< >>},
     reservation_time : {<< >>}, status : {<<"pending">>}]

\* The read operations of the API and of manage_db.
Reads ==
    \/ get_restaurants
    \/ \E r \in RestaurantIds : get_restaurant(r)
    \/ \E r \in RestaurantIds : get_tables(r)
    \/ \E st \in StatusChoices : get_all_reservations(<< >>, st)
    \/ show_stats
    \/ list_restaurants
    \/ \E r \in RestaurantIds : list_tables(r)
    \/ \E limit \in Limits, st \in StatusChoices : list_reservations(limit, st)
    \/ \E days \in 0 .. MaxDays : upcoming_reservations(days)

\* Requests and commands run one at a time, reads between the writes; the
\* cleanup waits at its prompt while others run.
NextReads ==
    \/ \E req \in ReadBookings : create_reservation(req)
    \/ \E id \in ReservationIds, upd \in ReadUpdates : update_reservation(id, upd)
    \/ \E id \in ReservationIds : cancel_reservation(id)
    \/ \E days \in 0 .. MaxDays : CliCleanupPrompt(days)
    \/ \E confirm \in Answers : CliCleanupAnswer(confirm)
    \/ Reads

SpecReads == InitOnLastDay /\ [][NextReads]_vars

\* Calls of the limiter, one at a time, under a clock that never goes back.
NextLimiter ==
    \/ \E identifier \in Identifiers : is_allowed(identifier)
    \/ Elapse

SpecLimiter == Init /\ [][NextLimiter]_vars

\* ================================================================ claims
\* A step that serves a request: `last` records it.  Serving the same request
\* twice with the same response and no change of the store is a stuttering step.
CreateServed(req) == last' # last /\ last'.op = "create" /\ last'.req = <<req>>
CancelServed(id) ==
    /\ last' # last \/ reservations' # reservations
    /\ last'.op = "cancel" /\ last'.id = id

\* Some row holds table `t` at exactly `time` with status 'reserved'.
SlotTaken(t, time) ==
    \E id \in DOMAIN reservations :
        /\ reservations[id].table_id = t
        /\ reservations[id].reservation_time = time
        /\ reservations[id].status = "reserved"

ConflictResponse == [code |-> 400, detail |-> <<"Table already reserved for this time">>]
CapacityResponse(cap) == [code |-> 400, detail |-> <<"Party size exceeds table capacity", cap>>]

\* The step inserts exactly one row, for `req`, under the id the sequence gives.
InsertedFor(req) ==
    /\ nextId \notin DOMAIN reservations
    /\ DOMAIN reservations' = DOMAIN reservations \cup {nextId}
    /\ \A id \in DOMAIN reservations : reservations'[id] = reservations[id]
    /\ reservations'[nextId].id = nextId
    /\ reservations'[nextId].table_id = req.table_id
    /\ reservations'[nextId].customer_name = req.customer_name
    /\ reservations'[nextId].phone = req.phone
    /\ reservations'[nextId].party_size = req.party_size
    /\ reservations'[nextId].reservation_time = req.reservation_time
    /\ reservations'[nextId].status = "reserved"

\* ---------------------------------------------------------------- C1
\* C1 as stated: while a reservation made at (T, t) is still 'reserved', a
\* create at the identical (T, t) is answered 400 Conflict and inserts nothing,
\* and a create at (T, t + 1 minute) with a party within capacity succeeds.
C1_AsStated ==
    [][\A req \in ReservationCreate :
        (CreateServed(req) /\ req.table_id \in DOMAIN tables) =>
            /\ SlotTaken(req.table_id, req.reservation_time) =>
                  (last'.resp = ConflictResponse /\ reservations' = reservations)
            /\ ( /\ SlotTaken(req.table_id, req.reservation_time - 1)
                 /\ req.party_size <= tables[req.table_id].capacity ) =>
                  (last'.resp.code = 200 /\ InsertedFor(req))]_vars

\* C1, amended: while a reservation made at (T, t) is still 'reserved', a create
\* at the identical (T, t) is answered 400 Conflict and inserts nothing, and a
\* create at (T, t + 1 minute) with a party within capacity succeeds provided no
\* 'reserved' reservation already holds (T, t + 1 minute).
C1_ConflictOnSameSlotOnly ==
    [][\A req \in ReservationCreate :
        (CreateServed(req) /\ req.table_id \in DOMAIN tables) =>
            /\ SlotTaken(req.table_id, req.reservation_time) =>
                  (last'.resp = ConflictResponse /\ reservations' = reservations)
            /\ ( /\ SlotTaken(req.table_id, req.reservation_time - 1)
                 /\ ~SlotTaken(req.table_id, req.reservation_time)
                 /\ req.party_size <= tables[req.table_id].capacity ) =>
                  (last'.resp.code = 200 /\ InsertedFor(req))]_vars

\* A table booked at t and at t + 1 minute, both still reserved, and a further
\* create at (T, t) just answered with Conflict.
C1_Witness ==
    /\ last.op = "create" /\ last.resp = ConflictResponse
    /\ \E i, j \in DOMAIN reservations :
        /\ i < j
        /\ reservations[i].table_id = last.req[1].table_id
        /\ reservations[j].table_id = last.req[1].table_id
        /\ reservations[i].reservation_time = last.req[1].reservation_time
        /\ reservations[j].reservation_time = last.req[1].reservation_time + 1
        /\ reservations[i].status = "reserved"
        /\ reservations[j].status = "reserved"

\* ---------------------------------------------------------------- C2
\* C2: with concurrent create requests, a commit that duplicates a 'reserved'
\* (table_id, reservation_time) happens only when the committing request passed
\* its conflict check before the earlier row was committed; the witness shows
\* that such an interleaving, and the duplicate booking, is reachable.
C2_DuplicateOnlyByRace ==
    [][\A c \in Clients :
        (pc[c] = "insert" /\ pc'[c] = "idle" /\ nextId' = nextId + 1) =>
            \A i \in DOMAIN reservations :
                ( /\ reservations[i].table_id = reservations'[nextId].table_id
                  /\ reservations[i].reservation_time = reservations'[nextId].reservation_time
                  /\ reservations[i].status = "reserved" ) =>
                    cseen[c] <= i]_vars

\* Two 'reserved' rows with the same (table_id, reservation_time).
C2_Witness ==
    \E i, j \in DOMAIN reservations :
        /\ i # j
        /\ reservations[i].table_id = reservations[j].table_id
        /\ reservations[i].reservation_time = reservations[j].reservation_time
        /\ reservations[i].status = "reserved"
        /\ reservations[j].status = "reserved"

\* ---------------------------------------------------------------- C3
\* C3: a create whose table exists and whose slot is free is answered 400
\* CapacityExceeded, with the table's capacity in the message and no row
\* inserted, when party_size > capacity; with party_size = capacity it succeeds.
C3_CapacityExceeded ==
    [][\A req \in ReservationCreate :
        ( /\ CreateServed(req)
          /\ req.table_id \in DOMAIN tables
          /\ ~SlotTaken(req.table_id, req.reservation_time) ) =>
            /\ req.party_size > tables[req.table_id].capacity =>
                  /\ last'.resp.code = 400
                  /\ Len(last'.resp.detail) = 2
                  /\ last'.resp.detail[1] = "Party size exceeds table capacity"
                  /\ last'.resp.detail[2] = tables[req.table_id].capacity
                  /\ reservations' = reservations
            /\ req.party_size = tables[req.table_id].capacity =>
                  (last'.resp.code = 200 /\ InsertedFor(req))]_vars

\* An over-capacity create just refused with the capacity in the message, next
\* to an accepted reservation that fills its table exactly.
C3_Witness ==
    /\ last.op = "create" /\ last.resp.code = 400
    /\ last.req[1].table_id \in DOMAIN tables
    /\ last.req[1].party_size > tables[last.req[1].table_id].capacity
    /\ last.resp = CapacityResponse(tables[last.req[1].table_id].capacity)
    /\ \E id \in DOMAIN reservations :
        reservations[id].party_size = tables[reservations[id].table_id].capacity

\* ---------------------------------------------------------------- C4
\* C4: a create whose table_id matches no Table row is answered 404 NotFound,
\* whatever its other fields, and the reservations are unchanged.
C4_TableNotFound ==
    [][\A req \in ReservationCreate :
        (CreateServed(req) /\ req.table_id \notin DOMAIN tables) =>
            /\ last'.resp = [code |-> 404, detail |-> <<"Table not found">>]
            /\ reservations' = reservations
            /\ nextId' = nextId]_vars

\* A create for an unknown table just answered 404 while the store holds rows.
C4_Witness ==
    /\ last.op = "create" /\ last.resp.code = 404
    /\ last.req[1].table_id \notin DOMAIN tables
    /\ reservations # << >>

\* ---------------------------------------------------------------- C5
\* C5: create reports the first failing precondition in the order table-exists,
\* conflict, capacity; a request that both collides with a 'reserved' row and
\* exceeds the capacity is answered Conflict, never CapacityExceeded.
C5_CheckOrder ==
    [][\A req \in ReservationCreate :
        CreateServed(req) =>
            IF req.table_id \notin DOMAIN tables
            THEN last'.resp.code = 404
            ELSE IF SlotTaken(req.table_id, req.reservation_time)
            THEN last'.resp = ConflictResponse
            ELSE IF req.party_size > tables[req.table_id].capacity
            THEN last'.resp = CapacityResponse(tables[req.table_id].capacity)
            ELSE last'.resp.code = 200]_vars

\* A create that collides and exceeds the capacity, just answered Conflict.
C5_Witness ==
    /\ last.op = "create" /\ last.resp = ConflictResponse
    /\ last.req[1].party_size > tables[last.req[1].table_id].capacity
    /\ SlotTaken(last.req[1].table_id, last.req[1].reservation_time)

\* ---------------------------------------------------------------- C6
\* The end-to-end scenario: a table booked at t within capacity and still
\* 'reserved', a rebooking of the same slot just refused with Conflict, and now
\* a create for the same slot with a party above the capacity.
C6_Scenario(req) ==
    /\ CreateServed(req)
    /\ req.table_id \in DOMAIN tables
    /\ last.op = "create" /\ last.resp = ConflictResponse
    /\ last.req[1].table_id = req.table_id
    /\ last.req[1].reservation_time = req.reservation_time
    /\ \E id \in DOMAIN reservations :
        /\ reservations[id].table_id = req.table_id
        /\ reservations[id].reservation_time = req.reservation_time
        /\ reservations[id].status = "reserved"
        /\ reservations[id].party_size <= tables[req.table_id].capacity
    /\ req.party_size > tables[req.table_id].capacity

\* C6 as stated: in the scenario the over-capacity create is answered 400
\* CapacityExceeded.
C6_AsStated ==
    [][\A req \in ReservationCreate :
        C6_Scenario(req) =>
            last'.resp = CapacityResponse(tables[req.table_id].capacity)]_vars

\* C6, amended: in the scenario the over-capacity create is answered 400 with
\* the Conflict message, not CapacityExceeded, and inserts nothing.
C6_ScenarioConflict ==
    [][\A req \in ReservationCreate :
        C6_Scenario(req) =>
            /\ last'.resp.code = 400
            /\ last'.resp.detail = <<"Table already reserved for this time">>
            /\ reservations' = reservations]_vars

\* The scenario's end: reservation 1, within capacity, still holds its slot and
\* an over-capacity create for that slot was just answered 400.
C6_Witness ==
    /\ last.op = "create" /\ last.resp.code = 400
    /\ 1 \in DOMAIN reservations
    /\ reservations[1].status = "reserved"
    /\ reservations[1].party_size <= tables[reservations[1].table_id].capacity
    /\ last.req[1].table_id = reservations[1].table_id
    /\ last.req[1].reservation_time = reservations[1].reservation_time
    /\ last.req[1].party_size > tables[reservations[1].table_id].capacity

\* ---------------------------------------------------------------- C7
\* C7: a successful create adds exactly one row, under a fresh id, 'reserved',
\* with the request's fields; every other Reservation, Table and Restaurant row
\* is unchanged, and the row returned is the row inserted.
C7_CreateFrame ==
    [][\A req \in ReservationCreate :
        (CreateServed(req) /\ last'.resp.code = 200) =>
            /\ InsertedFor(req)
            /\ Cardinality(DOMAIN reservations') = Cardinality(DOMAIN reservations) + 1
            /\ tables' = tables
            /\ restaurants' = restaurants
            /\ last'.body = <<reservations'[nextId]>>]_vars

\* A create just succeeded in a store that already held a reservation.
C7_Witness ==
    /\ last.op = "create" /\ last.resp.code = 200
    /\ Cardinality(DOMAIN reservations) >= 2
    /\ last.body[1].id \in DOMAIN reservations
    /\ reservations[last.body[1].id] = last.body[1]

\* ---------------------------------------------------------------- C8
\* C8: cancelling an existing reservation sets its status to 'cancelled' and
\* changes nothing else; cancelling an already cancelled one gives the same
\* confirmation, carrying the id, and leaves the store as it was.
C8_CancelIdempotent ==
    [][\A id \in ReservationIds :
        (CancelServed(id) /\ id \in DOMAIN reservations) =>
            /\ last'.resp.code = 200
            /\ last'.body = <<[message |-> "Reservation cancelled successfully", id |-> id]>>
            /\ DOMAIN reservations' = DOMAIN reservations
            /\ \A j \in DOMAIN reservations : j # id => reservations'[j] = reservations[j]
            /\ reservations'[id].status = "cancelled"
            /\ \A f \in DOMAIN reservations[id] \ {"status"} :
                    reservations'[id][f] = reservations[id][f]
            /\ reservations[id].status = "cancelled" => reservations' = reservations
            /\ tables' = tables /\ restaurants' = restaurants /\ nextId' = nextId]_vars

\* Reservation i was cancelled, its slot was booked again as j, and a cancel of
\* i was served again after that: the second cancel of the same reservation.
C8_Witness ==
    /\ last.op = "cancel" /\ last.resp.code = 200
    /\ \E i, j \in DOMAIN reservations :
        /\ i < j
        /\ last.id = i
        /\ reservations[i].status = "cancelled"
        /\ reservations[j].table_id = reservations[i].table_id
        /\ reservations[j].reservation_time = reservations[i].reservation_time

\* ---------------------------------------------------------------- C9
\* C9: a reservation's status changes only from 'reserved' to 'cancelled', and
\* only in a step of the cancel operation; a 'cancelled' reservation is never
\* 'reserved' again.
C9_StatusOnlyCancelled ==
    [][\A id \in DOMAIN reservations :
        /\ reservations'[id].status # reservations[id].status =>
              /\ reservations[id].status = "reserved"
              /\ reservations'[id].status = "cancelled"
              /\ last'.op = "cancel"
        /\ reservations[id].status = "cancelled" => reservations'[id].status # "reserved"]_vars

\* ---------------------------------------------------------------- C10
\* C10: every Reservation row's status is 'reserved' or 'cancelled'.
C10_StatusInEnum ==
    \A id \in DOMAIN reservations : reservations[id].status \in {"reserved", "cancelled"}

\* ---------------------------------------------------------------- C11
\* C11: every Reservation row has a party size of at least one.
C11_PartySizeAtLeastOne ==
    \A id \in DOMAIN reservations : reservations[id].party_size >= 1

\* ---------------------------------------------------------------- C12
UpdatableFields == {"customer_name", "phone", "party_size", "reservation_time", "status"}

\* C12: an update of an existing reservation with the fields S sets exactly the
\* fields in S to the supplied values, leaves the other fields of the row
\* (id, table_id and created_at among them) and every other row as they were,
\* and is answered 200 with the row; an update of an identifier that matches
\* no row is answered 404 and changes nothing.
C12_UpdateFrame ==
    [][\A id \in {last'.id} \cap ReservationIds, upd \in Corrections :
        update_reservation(id, upd) =>
            IF id \in DOMAIN reservations
            THEN /\ DOMAIN reservations' = DOMAIN reservations
                 /\ \A f \in UpdatableFields :
                        reservations'[id][f] =
                            IF upd[f] # << >> THEN upd[f][1] ELSE reservations[id][f]
                 /\ \A f \in DOMAIN reservations[id] \ UpdatableFields :
                        reservations'[id][f] = reservations[id][f]
                 /\ DOMAIN reservations'[id] = DOMAIN reservations[id]
                 /\ \A other \in DOMAIN reservations \ {id} :
                        reservations'[other] = reservations[other]
                 /\ <<restaurants', tables', nextId'>> = <<restaurants, tables, nextId>>
                 /\ last'.resp.code = 200
                 /\ last'.body = <<reservations'[id]>>
            ELSE /\ store' = store
                 /\ nextId' = nextId
                 /\ last'.resp = [code |-> 404, detail |-> <<"Reservation not found">>]]_vars

\* A second reservation exists, and an update has just given the cancelled
\* reservation i a new name and party size and left its phone, time and status
\* alone.
C12_Witness ==
    \E i \in DOMAIN reservations :
        /\ Cardinality(DOMAIN reservations) = 2
        /\ last.op = "update" /\ last.id = i /\ last.resp.code = 200
        /\ last.body = <<reservations[i]>>
        /\ reservations[i].customer_name = "Dina"
        /\ reservations[i].party_size = MaxParty
        /\ reservations[i].phone = "555"
        /\ reservations[i].status = "cancelled"
        /\ reservations[i].reservation_time = 0

\* ---------------------------------------------------------------- C13
\* The update raises the party size of reservation `id` above the capacity of
\* its table.
RaisesAboveCapacity(id, upd) ==
    /\ upd.party_size # << >>
    /\ upd.party_size[1] > tables[reservations[id].table_id].capacity

\* The update leaves reservation `id` 'reserved' at a time at which another
\* 'reserved' reservation of the same table stands, by moving its time or by
\* setting its status.
TakesHeldSlot(id, upd) ==
    LET time == IF upd.reservation_time # << >> THEN upd.reservation_time[1]
                ELSE reservations[id].reservation_time
        status == IF upd.status # << >> THEN upd.status[1] ELSE reservations[id].status
    IN  /\ upd.reservation_time # << >> \/ upd.status # << >>
        /\ status = "reserved"
        /\ \E other \in DOMAIN reservations \ {id} :
                /\ reservations[other].table_id = reservations[id].table_id
                /\ reservations[other].reservation_time = time
                /\ reservations[other].status = "reserved"

\* C13: an update that raises the party size above the table's capacity, or
\* that puts the reservation at the exact time of another 'reserved'
\* reservation of the same table, is answered 200 and takes effect.
C13_UpdateUnchecked ==
    [][\A id \in {last'.id} \cap DOMAIN reservations, upd \in Corrections :
        (RaisesAboveCapacity(id, upd) \/ TakesHeldSlot(id, upd))
            /\ update_reservation(id, upd) =>
                /\ last'.resp.code = 200
                /\ upd.party_size # << >> =>
                        reservations'[id].party_size = upd.party_size[1]
                /\ upd.reservation_time # << >> =>
                        reservations'[id].reservation_time = upd.reservation_time[1]
                /\ upd.status # << >> => reservations'[id].status = upd.status[1]]_vars

\* After a successful update and with no request ever in flight next to
\* another, two 'reserved' reservations hold the same table at the same time
\* and one of them exceeds the table's capacity.
C13_Witness ==
    \E i, j \in DOMAIN reservations :
        /\ i # j
        /\ last.op = "update" /\ last.id = i /\ last.resp.code = 200
        /\ reservations[i].status = "reserved" /\ reservations[j].status = "reserved"
        /\ reservations[i].table_id = reservations[j].table_id
        /\ reservations[i].reservation_time = reservations[j].reservation_time
        /\ reservations[i].party_size > tables[reservations[i].table_id].capacity

\* ---------------------------------------------------------------- C14
\* C14: a create, update or cancel request that is answered with an error
\* (404 or 400) leaves every Restaurant, Table and Reservation row, and the id
\* sequence, as they were before the request.
C14_ErrorsChangeNothing ==
    [][last'.resp.code # 200 => (store' = store /\ nextId' = nextId)]_vars

\* With a reservation in the store, a create has just been rejected for its
\* party size.
C14_Witness ==
    /\ Cardinality(DOMAIN reservations) = 1
    /\ last.op = "create"
    /\ last.resp.code = 400
    /\ last.resp.detail[1] = "Party size exceeds table capacity"

\* ---------------------------------------------------------------- C15
\* 00:00:00.000000 of the day of `clock`.
StartOfDay(clock) == clock - (clock % MicrosPerDay)

\* Some 'reserved' reservation of table `t` is timed today or later.
OccupiedFromToday(t) ==
    \E id \in DOMAIN reservations :
        /\ reservations[id].table_id = t
        /\ reservations[id].status = "reserved"
        /\ reservations[id].reservation_time >= StartOfDay(now)

\* The entry's current_reservation gives the public fields of a 'reserved'
\* reservation of table `t` timed today or later.
DescribesOccupant(t, data) ==
    \E id \in DOMAIN reservations :
        /\ reservations[id].table_id = t
        /\ reservations[id].status = "reserved"
        /\ reservations[id].reservation_time >= StartOfDay(now)
        /\ data.id = id
        /\ data.customer_name = reservations[id].customer_name
        /\ data.phone = reservations[id].phone
        /\ data.party_size = reservations[id].party_size
        /\ data.status = reservations[id].status
        /\ data.reservation_time.date * MicrosPerDay
             + data.reservation_time.time * MicrosPerSecond
             + data.reservation_time.microsecond = reservations[id].reservation_time

\* C15 as stated: the table listing of an existing restaurant has one entry
\* per table of that restaurant and no other entry; an entry's is_reserved is
\* true exactly when a 'reserved' reservation of its table is timed today or
\* later, and its current_reservation is present exactly then and describes
\* such a reservation; the listing of a missing restaurant is answered 404.
C15_AsStated ==
    [][last'.op = "tables" =>
        IF last'.id \notin DOMAIN restaurants
        THEN last'.resp.code = 404 /\ last'.body = << >>
        ELSE LET listing == last'.body[1].tables
                 ids == {t \in DOMAIN tables : tables[t].restaurant_id = last'.id}
             IN  /\ last'.resp.code = 200
                 /\ Len(listing) = Cardinality(ids)
                 /\ \A t \in ids : \E i \in DOMAIN listing : listing[i].id = t
                 /\ \A i \in DOMAIN listing :
                        /\ listing[i].id \in ids
                        /\ listing[i].is_reserved = OccupiedFromToday(listing[i].id)
                        /\ (listing[i].current_reservation # << >>) = listing[i].is_reserved
                        /\ listing[i].is_reserved =>
                              DescribesOccupant(listing[i].id,
                                                listing[i].current_reservation[1])]_vars

\* ---------------------------------------------------------------- C16
\* Some 'reserved' reservation of table `t` is timed in [from, to].
ReservedWithin(t, from, to) ==
    \E id \in DOMAIN reservations :
        /\ reservations[id].table_id = t
        /\ reservations[id].status = "reserved"
        /\ reservations[id].reservation_time >= from
        /\ reservations[id].reservation_time <= to

\* C16 as stated: in a table listing served at `now`, a table with a
\* 'reserved' reservation timed exactly at the start of today is reserved, so
\* is one with a 'reserved' reservation timed earlier today than `now`, and a
\* table whose 'reserved' reservations are all timed before today is not.
C16_AsStated ==
    [][(last'.op = "tables" /\ last'.resp.code = 200) =>
        \A i \in DOMAIN last'.body[1].tables :
            LET entry == last'.body[1].tables[i] IN
            /\ ReservedWithin(entry.id, StartOfDay(now), StartOfDay(now)) => entry.is_reserved
            /\ ReservedWithin(entry.id, StartOfDay(now), now - 1) => entry.is_reserved
            /\ ~ReservedWithin(entry.id, StartOfDay(now), (MaxDay + 1) * MicrosPerDay) =>
                    ~entry.is_reserved]_vars

\* ---------------------------------------------------------------- C17
\* The reservations that match every filter the query supplies.
MatchingSupplied(restaurant_id, status) ==
    {id \in DOMAIN reservations :
        /\ restaurant_id # << >> =>
                /\ reservations[id].table_id \in DOMAIN tables
                /\ tables[reservations[id].table_id].restaurant_id = restaurant_id[1]
        /\ status # << >> => reservations[id].status = status[1]}

\* C17 as stated: the reservation listing returns exactly the reservations
\* that match every supplied filter: those of status s when status=s is given,
\* those whose table belongs to restaurant r when restaurant_id=r is given,
\* and every reservation when no filter is given.
C17_AsStated ==
    [][last'.op = "reservations" =>
        LET listing == last'.body[1].reservations
            expected == MatchingSupplied(last'.req[1].restaurant_id, last'.req[1].status)
        IN  /\ last'.resp.code = 200
            /\ Len(listing) = Cardinality(expected)
            /\ \A id \in expected : \E i \in DOMAIN listing : listing[i] = reservations[id]
            /\ \A i \in DOMAIN listing : listing[i].id \in expected]_vars

\* ---------------------------------------------------------------- C18
\* The reservations a cleanup with a threshold of `days` days is to delete:
\* 'cancelled' and timed strictly before now minus the threshold.
CancelledBefore(days) ==
    {id \in DOMAIN reservations :
        /\ reservations[id].status = "cancelled"
        /\ reservations[id].reservation_time < now - days * MicrosPerDay}

\* C18 as stated: a step that deletes reservations deletes only reservations
\* that are 'cancelled' and timed strictly before now minus the threshold, for
\* some threshold of the cleanup command (no 'reserved' reservation and no
\* reservation at or after the cutoff is deleted), and it leaves every
\* remaining row as it was.
C18_AsStated ==
    [][~(DOMAIN reservations \subseteq DOMAIN reservations') =>
        /\ \E days \in 0 .. MaxDays :
                DOMAIN reservations \ DOMAIN reservations' \subseteq CancelledBefore(days)
        /\ \A id \in DOMAIN reservations' : reservations'[id] = reservations[id]]_vars

\* ---------------------------------------------------------------- C19
\* The answers that are 'yes' or 'y' in some mix of upper and lower case.
Affirmative == {"yes", "y", "YES", "Yes", "Y"}

\* C19: the cancel and cleanup commands leave the store as it is up to their
\* prompt, end without a prompt when the reservation id matches no row or no
\* row is old and cancelled, and leave the store as it is when the operator's
\* answer is not 'yes' or 'y'.
C19_ConfirmedOnly ==
    [][/\ \A id \in ReservationIds :
            CliCancelPrompt(id) =>
                /\ store' = store
                /\ id \notin DOMAIN reservations => cli'.pc = "idle"
       /\ \A days \in 0 .. MaxDays :
            CliCleanupPrompt(days) =>
                /\ store' = store
                /\ CancelledBefore(days) = {} => cli'.pc = "idle"
       /\ \A confirm \in Answers \ Affirmative :
            (CliCancelAnswer(confirm) \/ CliCleanupAnswer(confirm)) => store' = store]_vars

\* The operator has just declined to cancel a reservation, which is still
\* 'reserved'.
C19_Witness ==
    /\ last.op = "cli_cancel"
    /\ last.resp.detail = <<"Cancelled operation">>
    /\ last.id \in DOMAIN reservations
    /\ reservations[last.id].status = "reserved"

\* ---------------------------------------------------------------- C20
\* C20: no step removes a Restaurant or a Table row, and a step that removes a
\* Reservation row is the confirmed end of a cleanup command: under the create,
\* update, cancel and read operations the set of reservation ids only grows.
C20_OnlyCleanupRemoves ==
    [][/\ DOMAIN restaurants \subseteq DOMAIN restaurants'
       /\ DOMAIN tables \subseteq DOMAIN tables'
       /\ ~(DOMAIN reservations \subseteq DOMAIN reservations') =>
            /\ cli.pc = "confirm_cleanup"
            /\ cli'.pc = "idle"
            /\ last'.op = "cli_cleanup"]_vars

\* A cleanup has just deleted reservation 1 and reservation 2 is still there.
C20_Witness ==
    /\ last.op = "cli_cleanup"
    /\ last.resp.detail = <<"Deleted old reservations!", 1>>
    /\ DOMAIN reservations = {2}
    /\ nextId = 3

\* ---------------------------------------------------------------- C22
\* C22: every Reservation row names a Table row that exists and every Table
\* row names a Restaurant row that exists, and no step changes the table_id of
\* a reservation.
C22_ForeignKeys ==
    /\ [](/\ \A id \in DOMAIN reservations : reservations[id].table_id \in DOMAIN tables
          /\ \A t \in DOMAIN tables : tables[t].restaurant_id \in DOMAIN restaurants)
    /\ [][\A id \in DOMAIN reservations \cap DOMAIN reservations' :
            reservations'[id].table_id = reservations[id].table_id]_vars

\* Reservation 1 has been updated and then cancelled, a create that names a
\* table id matching no row has just been answered 404, and reservation 1 is
\* still at the table it was booked for.
C22_Witness ==
    /\ last.op = "create"
    /\ last.resp.code = 404
    /\ last.req[1].table_id \notin DOMAIN tables
    /\ 1 \in DOMAIN reservations
    /\ reservations[1].table_id = 2
    /\ reservations[1].status = "cancelled"
    /\ reservations[1].party_size = MaxParty

\* ---------------------------------------------------------------- C23
\* C23: a create that names an existing table is answered 400 Conflict exactly
\* when some reservation of that table is 'reserved' at exactly the requested
\* time; a cancelled reservation at that table and time and a 'reserved' one at
\* that time on another table do not make it a Conflict.
C23_ConflictIff ==
    [][\A req \in ReservationCreate :
        (CreateServed(req) /\ req.table_id \in DOMAIN tables) =>
            (last'.resp = ConflictResponse) = SlotTaken(req.table_id, req.reservation_time)]_vars

\* A booking has just been accepted although a cancelled reservation stands at
\* its table and time.
C23_Witness ==
    /\ last.op = "create" /\ last.resp.code = 200
    /\ \E i \in DOMAIN reservations :
            /\ reservations[i].id # last.body[1].id
            /\ reservations[i].table_id = last.body[1].table_id
            /\ reservations[i].reservation_time = last.body[1].reservation_time
            /\ reservations[i].status = "cancelled"

\* ---------------------------------------------------------------- C25
\* C25: with requests served one at a time and only create and cancel in use,
\* no two 'reserved' reservations hold the same table at the same time.
C25_OneReservedPerSlot ==
    \A i, j \in DOMAIN reservations :
        (/\ i # j
         /\ reservations[i].status = "reserved"
         /\ reservations[j].status = "reserved"
         /\ reservations[i].table_id = reservations[j].table_id) =>
            reservations[i].reservation_time # reservations[j].reservation_time

\* Two reservations of one table at one time, the older one cancelled and the
\* newer one 'reserved'; the last request was a create refused for that slot.
C25_Witness ==
    /\ DOMAIN reservations = {1, 2}
    /\ reservations[1].table_id = reservations[2].table_id
    /\ reservations[1].reservation_time = reservations[2].reservation_time
    /\ reservations[1].status = "cancelled"
    /\ reservations[2].status = "reserved"
    /\ last.op = "create"
    /\ last.resp = ConflictResponse
    /\ last.req[1].table_id = reservations[2].table_id
    /\ last.req[1].reservation_time = reservations[2].reservation_time

\* ---------------------------------------------------------------- C24
\* The Table rows of restaurant `r` among `tbls`.
TablesOfRestaurant(tbls, r) == {t \in DOMAIN tbls : tbls[t].restaurant_id = r}

\* C24: in every state the table numbers of a restaurant are pairwise
\* different and every capacity is positive; a step taken with no restaurant
\* in the store that adds one adds 5 restaurants, each with tables numbered
\* 1..25, of capacity 2 for 1-10, 4 for 11-20 and 6 for 21-25; a step taken
\* with a restaurant in the store adds no restaurant and no table.
C24_SeededOnce ==
    /\ [](\A t, u \in DOMAIN tables :
            /\ tables[t].capacity > 0
            /\ (t # u /\ tables[t].restaurant_id = tables[u].restaurant_id) =>
                    tables[t].table_number # tables[u].table_number)
    /\ [][/\ (DOMAIN restaurants = {} /\ DOMAIN restaurants' # {}) =>
                /\ Cardinality(DOMAIN restaurants') = 5
                /\ Cardinality(DOMAIN tables') = 125
                /\ \A t \in DOMAIN tables' : tables'[t].restaurant_id \in DOMAIN restaurants'
                /\ \A r \in DOMAIN restaurants' :
                        /\ {tables'[t].table_number : t \in TablesOfRestaurant(tables', r)}
                                = 1 .. 25
                        /\ \A t \in TablesOfRestaurant(tables', r) :
                                tables'[t].capacity =
                                    IF tables'[t].table_number <= 10 THEN 2
                                    ELSE IF tables'[t].table_number <= 20 THEN 4 ELSE 6
          /\ DOMAIN restaurants # {} =>
                (restaurants' = restaurants /\ tables' = tables)]_vars

\* The seed script has just found the store seeded and skipped, and a party of
\* five sits at a table of six of the seed.
C24_Witness ==
    /\ last.op = "seed"
    /\ last.resp.detail = <<"Restaurants already exist. Skipping...">>
    /\ Cardinality(DOMAIN restaurants) = 5
    /\ Cardinality(DOMAIN tables) = 125
    /\ \E id \in DOMAIN reservations :
            /\ reservations[id].party_size = 5
            /\ tables[reservations[id].table_id].capacity = 6

\* The number of calls of `identifier` answered True at a time in (from, to].
GrantedWithin(identifier, from, to) ==
    Cardinality({k \in DOMAIN granted[identifier] :
                    granted[identifier][k] > from /\ granted[identifier][k] <= to})

\* How many times the timestamp t occurs in a list of timestamps.
Occurrences(times, t) == Cardinality({k \in DOMAIN times : times[k] = t})

\* C28: under a clock that never goes back, no identifier is answered True
\* more than max_requests times within any interval (t - window_seconds, t];
\* a call answered False records no timestamp; and a call is answered False
\* only when max_requests earlier allowed calls of the same identifier lie
\* strictly inside the current window.
C28_RateLimited ==
    /\ [](\A identifier \in Identifiers : \A t \in 0 .. MaxClock + WindowLength :
            GrantedWithin(identifier, t - WindowLength, t) <= max_requests)
    /\ [][\A identifier \in Identifiers :
            (is_allowed(identifier) /\ ~last'.body[1].allowed) =>
                /\ \A t \in 0 .. MaxClock :
                      Occurrences(requests'[identifier], t) <= Occurrences(requests[identifier], t)
                /\ granted' = granted
                /\ GrantedWithin(identifier, now - WindowLength, now) >= max_requests]_vars

\* An identifier that used up one window, was served again when that window
\* had passed, and is now refused in its second window.
C28_Witness ==
    /\ last.op = "is_allowed"
    /\ ~last.body[1].allowed
    /\ LET identifier == last.req[1].identifier IN
         /\ Len(granted[identifier]) = 2 * max_requests
         /\ Len(requests[identifier]) = max_requests
         /\ GrantedWithin(identifier, now - WindowLength, now) = max_requests

\* C21: the read operations of the API (get_restaurants, get_restaurant,
\* get_tables, get_all_reservations) and of manage_db (stats, restaurants,
\* tables, reservations, upcoming) leave every Restaurant, Table and
\* Reservation row as it was, whether they succeed or end with not-found.
C21_ReadsChangeNothing == [][Reads => store' = store]_vars

\* A read that ended with not-found on a store that holds reservations.
C21_Witness ==
    /\ last.op \in {"restaurant", "tables", "cli_tables"}
    /\ last.id \notin DOMAIN restaurants
    /\ last.resp \in {NotFoundRestaurant, [code |-> 0, detail |-> <<"Restaurant not found!">>]}
    /\ DOMAIN reservations # {}

\* C26: whatever create, update, cancel and cleanup did before, the counts
\* show_stats prints satisfy active + cancelled = total reservations and
\* upcoming <= active.
C26_AsStated ==
    last.op = "cli_stats" =>
        LET stats == last.body[1].stats IN
        /\ stats.active + stats.cancelled = stats.reservation_count
        /\ stats.future <= stats.active

\* is_reserved of every entry get_tables may return for table t.
HttpReserved(t) ==
    \A active \in First(ActiveReservations(reservations, t, now)) :
        TableWithStatus(t, tables[t],
            IF active = << >> THEN << >> ELSE <<reservations[active[1]]>>).is_reserved

\* C27: at the same store and instant, every table list_tables prints as
\* Reserved has is_reserved = true in get_tables, and the number of reserved
\* tables list_restaurants prints for a restaurant is at most the number of
\* tables of that restaurant.
C27_CliWithinHttp ==
    /\ (last.op = "cli_tables" /\ last.body # << >>) =>
          \A i \in DOMAIN last.body[1].table_rows :
              last.body[1].table_rows[i].status = "Reserved" =>
                  \A t \in DOMAIN tables :
                      (/\ tables[t].restaurant_id = last.id
                       /\ tables[t].table_number = last.body[1].table_rows[i].table_number)
                          => HttpReserved(t)
    /\ last.op = "cli_restaurants" =>
          \A i \in DOMAIN last.body[1].restaurant_rows :
              last.body[1].restaurant_rows[i].reserved <=
                  Cardinality({t \in DOMAIN tables :
                      tables[t].restaurant_id = last.body[1].restaurant_rows[i].id})

\* list_tables printed a Reserved table, while a table of another restaurant
\* is Available for manage_db and is_reserved for the API.
C27_Witness ==
    /\ last.op = "cli_tables"
    /\ last.body # << >>
    /\ \E i \in DOMAIN last.body[1].table_rows :
          last.body[1].table_rows[i].status = "Reserved"
    /\ \E t \in DOMAIN tables :
          /\ tables[t].restaurant_id # last.id
          /\ CliActiveReservations(reservations, t, now) = {}
          /\ HttpReserved(t)

====
